---- MODULE Spec2Model ----
(***************************************************************************)
(* A model of the PgSQL connection manager of src/pgsql.py: the owned      *)
(* connection handle and its staleness refresh, credential resolution at   *)
(* connect time, the retry loop of _exec, and the public operations built  *)
(* on them.  The database driver, the credential providers and the tunnel  *)
(* are opaque collaborators: what they answer is drawn from small sets.    *)
(***************************************************************************)
EXTENDS Integers, Sequences, FiniteSets, TLC

(* ---------------------------------------------------------------------- *)
(* Program constants and model bounds                                      *)
(* ---------------------------------------------------------------------- *)

\* pgsql.py:16
MAX_ATTEMPTS == 3

\* pgsql.py:119, the staleness threshold in seconds
StaleAfter == 60

\* pgsql.py:103, the base of the backoff delay
BackoffBase == 8

\* Python's None, for self.con; the handles the driver opens are 1, 2, ...
None == 0

\* how many handles the driver opens in one behaviour
MaxHandles == 2

\* how far the age of the last-connected timestamp is followed, in seconds
MaxAge == 62

\* the steps by which the clock advances between two statements
TickSteps == {59, 61}

(* ---------------------------------------------------------------------- *)
(* Inputs                                                                  *)
(* ---------------------------------------------------------------------- *)

RealTarget == [host |-> "db.example", port |-> 5432]

\* tunnel.local_bind_host, tunnel.local_bind_port
TunnelEndpoint == [host |-> "127.0.0.1", port |-> 6543]

\* the password field of the configured parameters: the two sentinels and a
\* static password
Passwords == {"IAM", "SEM", "static_pw"}

\* what RDS().iam_auth may return: the provider is opaque, any string
Tokens == {"token_a", "SEM"}

\* what SEM().get_secret_json may return
Secrets == {[username |-> "svc_user", password |-> "svc_pw"]}

\* the rows a statement may produce (a row is named by a number)
RowSets == {<< >>, <<8, 7>>}

\* the members of the enum Fetch (pgsql.py:57-60)
Fetch == {"All", "Zro", "One"}

ConArgs(pw) ==
    [host |-> RealTarget.host, port |-> RealTarget.port, user |-> "app_user",
     password |-> pw, database |-> "appdb"]

(* ---------------------------------------------------------------------- *)
(* Values                                                                  *)
(* ---------------------------------------------------------------------- *)

\* a Python value returned to the caller
PyNone == [tag |-> "None", rows |-> << >>, n |-> 0]

PyRow(r) == [tag |-> "row", rows |-> <<r>>, n |-> 0]

PyList(rs) == [tag |-> "list", rows |-> rs, n |-> 0]

PyHandle(h) == [tag |-> "handle", rows |-> << >>, n |-> h]

PyBool(b) == [tag |-> "bool", rows |-> << >>, n |-> IF b THEN 1 ELSE 0]

\* how a call ended
Returned(v) == [kind |-> "return", err |-> "", val |-> v]

Raised(e) == [kind |-> "raise", err |-> e, val |-> PyNone]

Running == [kind |-> "running", err |-> "", val |-> PyNone]

\* an event of the current call, in the order the code performs it
Ev(what, n) == <<what, n>>

\* a call made to a credential provider
IamCall(h, p, u) == [prov |-> "IAM", host |-> h, port |-> p, user |-> u]

SemCall(u) == [prov |-> "SEM", host |-> "", port |-> 0, user |-> u]

RECURSIVE Pow(_, _)
Pow(b, e) == IF e = 0 THEN 1 ELSE b * Pow(b, e - 1)

\* the events of kind `what`, in order
Select(lg, what) == SelectSeq(lg, LAMBDA e : e[1] = what)

\* the numbers carried by the events of lg, in order
RECURSIVE Nums(_)
Nums(lg) == IF lg = << >> THEN << >> ELSE <<Head(lg)[2]>> \o Nums(Tail(lg))

(* ---------------------------------------------------------------------- *)
(* State                                                                   *)
(* ---------------------------------------------------------------------- *)

VARIABLES
    con,            \* self.con: None or the handle the manager owns
    live,           \* the handles the driver opened that are not closed
    nextId,         \* the handle the driver opens next
    con_age,        \* (datetime.now() - self.con_last).total_seconds()
    tunnel,         \* self.tunnel is not None
    con_args,       \* self.con_args
    orig_con_args,  \* self.orig_con_args
    lastCon,        \* the last run of connect(): provider calls, driver call
    pc,             \* "idle", or "attempt" inside the loop of _exec
    op,             \* the public operation running or last run
    attempts,       \* the local variable attempts of _exec
    fetch,          \* the fetch mode of the running _exec
    rows,           \* the rows the last successful statement produced
    log,            \* the events of the current call
    result          \* how the last call ended

vars == <<con, live, nextId, con_age, tunnel, con_args, orig_con_args,
          lastCon, pc, op, attempts, fetch, rows, log, result>>

(* ---------------------------------------------------------------------- *)
(* Credential resolution and connect (pgsql.py:18-29, 106-114)             *)
(* ---------------------------------------------------------------------- *)

do_iam_auth(ca, tok) ==
    IF ca.password = "IAM" THEN [ca EXCEPT !.password = tok] ELSE ca

\* do_iam_auth taking the token from an earlier connect: no call at line 21
iam_calls_cached(ca) == << >>

\* the provider calls do_iam_auth makes
iam_calls(ca) ==
    IF ca.password = "IAM" THEN <<IamCall(ca.host, ca.port, ca.user)>> ELSE << >>

do_sem_auth(ca, sec) ==
    IF ca.password = "SEM"
    THEN [ca EXCEPT !.user = sec.username, !.password = sec.password]
    ELSE ca

\* the provider calls do_sem_auth makes
sem_calls(ca) ==
    IF ca.password = "SEM" THEN <<SemCall(ca.user)>> ELSE << >>

\* connect() without lines 111-113
tunnel_override_none(ca, tun) == ca

\* lines 111-113
tunnel_override(ca, tun) ==
    IF tun
    THEN [ca EXCEPT !.host = TunnelEndpoint.host, !.port = TunnelEndpoint.port]
    ELSE ca

\* the outcomes one run of connect(ca) can have: the driver connects or fails
\* with an OperationalError, and a provider that is called may raise
ConnectOutcomes(ca, tok) ==
    {"ok", "operr"}
        \cup (IF iam_calls(ca) # << >> THEN {"iamerr"} ELSE {})
        \cup (IF sem_calls(do_iam_auth(ca, tok)) # << >> THEN {"semerr"} ELSE {})

\* connect(ca) with outcome c: the error raised ("" when none) and the record
\* of what it did
connect(ca, tun, c, tok, sec) ==
    LET a1 == do_iam_auth(ca, tok)
        a2 == do_sem_auth(a1, sec)
        a3 == tunnel_override(a2, tun)
        rec(args, calls, drv) ==
            [given |-> ca, args |-> args,
             token |-> IF iam_calls(ca) # << >> THEN tok ELSE "",
             calls |-> calls,
             driver |-> drv, tunnel |-> tun]
    IN  CASE c = "iamerr" ->
                [err |-> "ProviderError", rec |-> rec(ca, iam_calls(ca), 0)]
          [] c = "semerr" ->
                [err |-> "ProviderError",
                 rec |-> rec(a1, iam_calls(ca) \o sem_calls(a1), 0)]
          [] c = "operr" ->
                [err |-> "OperationalError",
                 rec |-> rec(a3, iam_calls(ca) \o sem_calls(a1), 1)]
          [] OTHER ->
                [err |-> "", rec |-> rec(a3, iam_calls(ca) \o sem_calls(a1), 1)]

NoConnect(ca) ==
    [given |-> ca, args |-> ca, token |-> "", calls |-> << >>, driver |-> 0,
     tunnel |-> FALSE]

(* ---------------------------------------------------------------------- *)
(* connection() and disconnect() (pgsql.py:116-122, 152-158)               *)
(* ---------------------------------------------------------------------- *)

\* lines 117-119 without the staleness test
needs_connect_nostale(c, lv, age) ==
    c = None \/ c \notin lv

\* lines 117-119 without the test of con.closed
needs_connect_noclosed(c, lv, age) ==
    c = None \/ age > StaleAfter

\* the condition of lines 117-119
needs_connect(c, lv, age) ==
    c = None \/ c \notin lv \/ age > StaleAfter

\* why connection() reconnects, or that it does not: noted in the log
acquire_note ==
    IF con = None THEN Ev("absent", None)
    ELSE IF con \notin live THEN Ev("closed", con)
    ELSE IF needs_connect(con, live, con_age) THEN Ev("stale", con)
    ELSE Ev("reuse", con)

\* connection() with line 121 outside the `if`: con_last is set on every call
connection_touch(c, tok, sec) ==
    IF ~needs_connect(con, live, con_age)
    THEN [err |-> "", h |-> con, con |-> con, live |-> live, nextId |-> nextId,
          age |-> 0, lastCon |-> NoConnect(con_args),
          ev |-> <<acquire_note>>]
    ELSE LET r == connect(con_args, tunnel, c, tok, sec)
         IN  IF r.err = ""
             THEN [err |-> "", h |-> nextId, con |-> nextId,
                   live |-> live \cup {nextId}, nextId |-> nextId + 1,
                   age |-> 0, lastCon |-> r.rec,
                   ev |-> <<acquire_note, Ev("connect", nextId)>>]
             ELSE [err |-> r.err, h |-> None, con |-> con, live |-> live,
                   nextId |-> nextId, age |-> 0, lastCon |-> r.rec,
                   ev |-> <<acquire_note, Ev("connect", None)>>]

\* connection() on the current state with connect outcome c: the error
\* raised, the handle returned, and the fields it leaves
connection(c, tok, sec) ==
    IF ~needs_connect(con, live, con_age)
    THEN [err |-> "", h |-> con, con |-> con, live |-> live, nextId |-> nextId,
          age |-> con_age, lastCon |-> NoConnect(con_args),
          ev |-> <<acquire_note>>]
    ELSE LET r == connect(con_args, tunnel, c, tok, sec)
         IN  IF r.err = ""
             THEN [err |-> "", h |-> nextId, con |-> nextId,
                   live |-> live \cup {nextId}, nextId |-> nextId + 1,
                   age |-> 0, lastCon |-> r.rec,
                   ev |-> <<acquire_note, Ev("connect", nextId)>>]
             ELSE [err |-> r.err, h |-> None, con |-> con, live |-> live,
                   nextId |-> nextId, age |-> con_age, lastCon |-> r.rec,
                   ev |-> <<acquire_note, Ev("connect", None)>>]

\* connection() can run with connect outcome c: a handle is left to open
CanConnect(c, tok) ==
    /\ c \in ConnectOutcomes(con_args, tok)
    /\ needs_connect(con, live, con_age) /\ c = "ok" => nextId <= MaxHandles

\* disconnect() returning at line 155 whenever the handle is not open,
\* leaving the reference to a closed handle in place
disconnect_keep(s) ==
    [s EXCEPT !.con_args = s.orig_con_args,
              !.live = IF s.con # None /\ s.con \in s.live
                       THEN s.live \ {s.con} ELSE s.live,
              !.con = IF s.con # None /\ s.con \in s.live THEN None ELSE s.con]

\* _exec without the self.disconnect() of line 102
disconnect_noop(s) == s

\* disconnect() on the fields s = [con, live, con_args, orig_con_args]
disconnect(s) ==
    [s EXCEPT !.con_args = s.orig_con_args,
              !.live = IF s.con # None /\ s.con \in s.live
                       THEN s.live \ {s.con} ELSE s.live,
              !.con = None]

\* the handles disconnect() calls close() on (line 157)
close_calls(s) ==
    IF s.con # None /\ s.con \in s.live THEN <<Ev("close", s.con)>> ELSE << >>

Fields == [con |-> con, live |-> live, con_args |-> con_args,
           orig_con_args |-> orig_con_args]

(* ---------------------------------------------------------------------- *)
(* _exec (pgsql.py:81-104)                                                 *)
(* ---------------------------------------------------------------------- *)

\* lines 91-96 with None in place of an empty result of fetchall
fetched_falsy(f, rs) ==
    IF rs = << >> THEN PyNone
    ELSE IF f = "All" THEN PyList(rs)
    ELSE IF f = "One" THEN PyRow(Head(rs))
    ELSE PyNone

\* lines 91-96
fetched(f, rs) ==
    IF f = "All" THEN PyList(rs)
    ELSE IF f = "One" THEN (IF rs = << >> THEN PyNone ELSE PyRow(Head(rs)))
    ELSE PyNone

\* line 103 with a product in place of the power
backoff_linear(att) == BackoffBase * (MAX_ATTEMPTS - att)

\* line 103: the delay slept after a failure with `att` attempts left
backoff(att) == Pow(BackoffBase, MAX_ATTEMPTS - att)

\* lines 98-104 without the raise of line 101
on_error_swallow(err, att) ==
    IF err = "OperationalError" THEN "retry" ELSE "raise"

\* lines 98-104 with `except Exception` at line 98
on_error_any(err, att) ==
    IF att = 1 THEN "raise" ELSE "retry"

\* lines 98-104: what the loop does with an error raised by an attempt
on_error(err, att) ==
    IF err = "OperationalError"
    THEN (IF att = 1 THEN "raise" ELSE "retry")
    ELSE "raise"

\* what cur.execute and the commit on leaving `with con` can do
ExecOutcomes == {"ok", "queryerr", "operr", "operr_closed"}

\* outside _exec its local variables do not exist
NoExec == attempts' = 0 /\ fetch' = "Zro" /\ rows' = << >>

Init ==
    /\ con = None
    /\ live = {}
    /\ nextId = 1
    /\ con_age = 0
    /\ tunnel = FALSE
    /\ \E pw \in Passwords :
          /\ orig_con_args = ConArgs(pw)
          /\ con_args = ConArgs(pw)
          /\ lastCon = NoConnect(ConArgs(pw))
    /\ pc = "idle"
    /\ op = "init"
    /\ attempts = 0
    /\ fetch = "Zro"
    /\ rows = << >>
    /\ log = << >>
    /\ result = Returned(PyNone)

\* the caller lets d seconds pass between two calls.  (Inside _exec the age
\* is read once, by the first connection(): after a failed attempt self.con
\* is None and the age is not looked at.)
Tick(d) ==
    /\ pc = "idle"
    /\ con_age + d <= MaxAge
    /\ con_age' = con_age + d
    /\ op' = "tick"
    /\ log' = << >>
    /\ lastCon' = NoConnect(con_args)
    /\ result' = Returned(PyNone)
    /\ UNCHANGED <<con, live, nextId, tunnel, con_args, orig_con_args, pc>>
    /\ NoExec

\* exec, exec_fetch_one, exec_fetch_all: lines 81-84 of _exec; found is
\* whether the text is given or read_query finds the named query
ExecBegin(name, f, found) ==
    /\ pc = "idle"
    /\ op' = name
    /\ fetch' = f
    /\ rows' = << >>
    /\ log' = << >>
    /\ IF found
       THEN /\ pc' = "attempt"
            /\ attempts' = MAX_ATTEMPTS
            /\ result' = Running
       ELSE /\ pc' = "idle"
            /\ attempts' = 0
            /\ result' = Raised("QueryNotFound")
    /\ lastCon' = NoConnect(con_args)
    /\ UNCHANGED <<con, live, nextId, con_age, tunnel, con_args, orig_con_args>>

\* one iteration of the loop of _exec (lines 85-104).  time.sleep(d) is noted
\* in the log with its delay; the clock is advanced by Tick alone.
ExecAttempt(c, tok, sec, e, rs) ==
    /\ pc = "attempt"
    /\ CanConnect(c, tok)
    /\ LET a    == connection(c, tok, sec)
           err  == IF a.err # "" THEN a.err
                   ELSE IF e = "ok" THEN ""
                   ELSE IF e = "queryerr" THEN "QueryError"
                   ELSE "OperationalError"
           lv   == IF a.err = "" /\ e = "operr_closed"
                   THEN a.live \ {a.h} ELSE a.live
           k    == MAX_ATTEMPTS - attempts + 1
           lg   == log \o <<Ev("attempt", k)>> \o a.ev
                       \o (IF a.err = "" THEN <<Ev("execute", a.h)>> ELSE << >>)
                       \o (IF err = "" THEN << >>
                           ELSE IF err = "OperationalError"
                           THEN <<Ev("operr", k)>> ELSE <<Ev("error", k)>>)
           s    == [con |-> a.con, live |-> lv, con_args |-> con_args,
                    orig_con_args |-> orig_con_args]
           d    == disconnect(s)
       IN  /\ nextId' = a.nextId
           /\ lastCon' = a.lastCon
           /\ IF err = ""
              THEN /\ rows' = rs
                   /\ result' = Returned(fetched(fetch, rs))
                   /\ pc' = "idle"
                   /\ con' = a.con /\ live' = lv /\ con_age' = a.age
                   /\ log' = lg
                   /\ UNCHANGED <<attempts, con_args>>
              ELSE IF on_error(err, attempts) = "retry"
              THEN /\ con' = d.con /\ live' = d.live /\ con_args' = d.con_args
                   /\ con_age' = a.age
                   /\ log' = lg \o <<Ev("disconnect", s.con)>> \o close_calls(s)
                                \o <<Ev("sleep", backoff(attempts))>>
                   /\ attempts' = attempts - 1
                   /\ pc' = IF attempts - 1 > 0 THEN "attempt" ELSE "idle"
                   /\ result' = IF attempts - 1 > 0 THEN Running
                                ELSE Returned(PyNone)
                   /\ UNCHANGED rows
              ELSE /\ result' = Raised(err)
                   /\ pc' = "idle"
                   /\ con' = a.con /\ live' = lv /\ con_age' = a.age
                   /\ log' = lg
                   /\ UNCHANGED <<attempts, con_args, rows>>
    /\ UNCHANGED <<tunnel, orig_con_args, op, fetch>>

\* disconnect() (lines 152-158)
Disconnect ==
    /\ pc = "idle"
    /\ LET d == disconnect(Fields)
       IN  /\ con' = d.con /\ live' = d.live /\ con_args' = d.con_args
           /\ log' = <<Ev("disconnect", con)>> \o close_calls(Fields)
    /\ op' = "disconnect"
    /\ result' = Returned(PyNone)
    /\ lastCon' = NoConnect(con_args)
    /\ UNCHANGED <<nextId, con_age, tunnel, orig_con_args, pc>>
    /\ NoExec

\* connection() called by the user of the manager (lines 116-122)
Connection(c, tok, sec) ==
    /\ pc = "idle"
    /\ CanConnect(c, tok)
    /\ LET a == connection(c, tok, sec)
       IN  /\ con' = a.con /\ live' = a.live /\ nextId' = a.nextId
           /\ con_age' = a.age
           /\ lastCon' = a.lastCon
           /\ log' = a.ev
           /\ result' = IF a.err = "" THEN Returned(PyHandle(a.h))
                        ELSE Raised(a.err)
    /\ op' = "connection"
    /\ UNCHANGED <<tunnel, con_args, orig_con_args, pc>>
    /\ NoExec

\* exec_batch and exec_values (lines 163-168, 176-181): read_query, then
\* connection(), then the statement inside `with con`.  What the driver's
\* helper does with the arguments it is given is drawn from ExecOutcomes.
ExecBulk(name, found, c, tok, sec, e) ==
    /\ pc = "idle"
    /\ name \in {"exec_batch", "exec_values"}
    /\ op' = name
    /\ IF ~found
       THEN /\ result' = Raised("QueryNotFound")
            /\ log' = << >>
            /\ lastCon' = NoConnect(con_args)
            /\ UNCHANGED <<con, live, nextId, con_age>>
       ELSE /\ CanConnect(c, tok)
            /\ LET a   == connection(c, tok, sec)
                   err == IF a.err # "" THEN a.err
                          ELSE IF e = "ok" THEN ""
                          ELSE IF e = "queryerr" THEN "QueryError"
                          ELSE "OperationalError"
               IN  /\ con' = a.con /\ nextId' = a.nextId /\ con_age' = a.age
                   /\ live' = IF a.err = "" /\ e = "operr_closed"
                              THEN a.live \ {a.h} ELSE a.live
                   /\ lastCon' = a.lastCon
                   /\ log' = <<Ev("attempt", 1)>> \o a.ev
                        \o (IF a.err = "" THEN <<Ev("execute", a.h)>> ELSE << >>)
                        \o (IF err = "" THEN << >>
                            ELSE IF err = "OperationalError"
                            THEN <<Ev("operr", 1)>> ELSE <<Ev("error", 1)>>)
                   /\ result' = IF err = "" THEN Returned(PyNone) ELSE Raised(err)
    /\ UNCHANGED <<tunnel, con_args, orig_con_args, pc>>
    /\ NoExec

\* lines 129 and 144 assigning to self.con
admin_con_self(owned, h) == h

\* lines 129 and 144: the handle h that connect() returns is bound to the
\* local name con; self.con keeps the handle the manager owns
admin_con(owned, h) == owned

\* the body shared by create_db and create_iam_user: connect(ca) on a copy of
\* the parameters, the statement, then close() (lines 129-136, 144-150)
Admin(name, ca, c, tok, sec, e) ==
    /\ pc = "idle"
    /\ c \in ConnectOutcomes(ca, tok)
    /\ c = "ok" => nextId <= MaxHandles
    /\ LET r == connect(ca, tunnel, c, tok, sec)
           h == nextId
       IN  /\ lastCon' = r.rec
           /\ IF r.err # ""
              THEN /\ result' = Raised(r.err)
                   /\ log' = <<Ev("connect", None)>>
                   /\ UNCHANGED <<con, live, nextId>>
              ELSE /\ nextId' = nextId + 1
                   /\ con' = admin_con(con, h)
                   /\ IF e = "ok"
                      THEN /\ live' = live
                           /\ log' = <<Ev("connect", h), Ev("execute", h),
                                       Ev("close", h)>>
                           /\ result' = Returned(PyNone)
                      ELSE /\ live' = IF e = "operr_closed" THEN live
                                      ELSE live \cup {h}
                           /\ log' = <<Ev("connect", h), Ev("execute", h)>>
                           /\ result' = Raised(IF e = "queryerr" THEN "QueryError"
                                               ELSE "OperationalError")
    /\ op' = name
    /\ UNCHANGED <<con_age, tunnel, con_args, orig_con_args, pc>>
    /\ NoExec

\* create_db (lines 124-136)
CreateDb(c, tok, sec, e) ==
    Admin("create_db", [con_args EXCEPT !.database = "postgres"], c, tok, sec, e)

\* create_iam_user(db_user, db_pass) (lines 138-150)
CreateIamUser(db_user, db_pass, c, tok, sec, e) ==
    Admin("create_iam_user",
          [con_args EXCEPT !.user = db_user, !.password = db_pass,
                           !.database = "postgres"],
          c, tok, sec, e)

\* tunnel_start (lines 200-207)
TunnelStart ==
    /\ pc = "idle"
    /\ tunnel' = TRUE
    /\ op' = "tunnel_start"
    /\ log' = <<Ev("tunnel_start", 0)>>
    /\ lastCon' = NoConnect(con_args)
    /\ result' = Returned(PyNone)
    /\ UNCHANGED <<con, live, nextId, con_age, con_args, orig_con_args, pc>>
    /\ NoExec

\* lines 210-211 in the other order: the tunnel is stopped, then disconnect()
tunnel_stop_events_late(s, tun) ==
    (IF tun THEN <<Ev("tunnel_stop", 0)>> ELSE << >>)
        \o <<Ev("disconnect", s.con)>> \o close_calls(s)

\* what tunnel_stop does, in order (lines 210-211): disconnect(), which
\* closes an open handle, then self.tunnel.stop() on the tunnel there is
tunnel_stop_events(s, tun) ==
    <<Ev("disconnect", s.con)>> \o close_calls(s)
        \o (IF tun THEN <<Ev("tunnel_stop", 0)>> ELSE << >>)

\* tunnel_stop (lines 209-212); self.tunnel.stop() raises when there is no
\* tunnel
TunnelStop ==
    /\ pc = "idle"
    /\ LET d == disconnect(Fields)
       IN  /\ con' = d.con /\ live' = d.live /\ con_args' = d.con_args
           /\ log' = tunnel_stop_events(Fields, tunnel)
    /\ tunnel' = FALSE
    /\ result' = IF tunnel THEN Returned(PyNone) ELSE Raised("AttributeError")
    /\ op' = "tunnel_stop"
    /\ lastCon' = NoConnect(con_args)
    /\ UNCHANGED <<nextId, con_age, orig_con_args, pc>>
    /\ NoExec

\* lines 217-221 returning False for every error, whatever its text
verify_result_any(err, match) ==
    IF err = "" THEN Returned(PyBool(TRUE)) ELSE Returned(PyBool(FALSE))

\* lines 215-221: how verify_connection ends when connect() raised err ("" when
\* it raised nothing) and match says whether msg occurs in str(e)
verify_result(err, match) ==
    IF err = "" THEN Returned(PyBool(TRUE))
    ELSE IF match THEN Returned(PyBool(FALSE))
    ELSE Raised(err)

\* verify_connection(msg), and through it verify_db_created and
\* verify_iam_user (lines 214-227); match is whether msg occurs in the text of
\* the error raised
VerifyConnection(c, tok, sec, match) ==
    /\ pc = "idle"
    /\ c \in ConnectOutcomes(con_args, tok)
    /\ c = "ok" => nextId <= MaxHandles
    /\ LET r == connect(con_args, tunnel, c, tok, sec)
       IN  /\ lastCon' = r.rec
           /\ IF r.err = ""
              THEN /\ live' = live \cup {nextId}
                   /\ nextId' = nextId + 1
                   /\ log' = <<Ev("connect", nextId)>>
                   /\ result' = verify_result(r.err, match)
              ELSE /\ log' = <<Ev("connect", None),
                               Ev("match", IF match THEN 1 ELSE 0)>>
                   /\ result' = verify_result(r.err, match)
                   /\ UNCHANGED <<live, nextId>>
    /\ op' = "verify_connection"
    /\ UNCHANGED <<con, con_age, tunnel, con_args, orig_con_args, pc>>
    /\ NoExec

\* a handle the manager no longer refers to is finalised by the runtime,
\* which closes it; whether and when this happens is up to the runtime
Collect(h) ==
    /\ pc = "idle"
    /\ h \in live
    /\ h # con
    /\ live' = live \ {h}
    /\ op' = "collect"
    /\ log' = <<Ev("close", h)>>
    /\ lastCon' = NoConnect(con_args)
    /\ result' = Returned(PyNone)
    /\ UNCHANGED <<con, nextId, con_age, tunnel, con_args, orig_con_args, pc>>
    /\ NoExec

AdminUsers == {"admin"}

AdminPasswords == {"admin_pw"}

\* the answers of the collaborators that one run of connect(ca) can see: the
\* connect outcome and the token issued (a token is drawn only when the IAM
\* provider is asked)
ConnectChoices(ca) ==
    { ct \in {"ok", "operr", "iamerr", "semerr"} \X Tokens :
        /\ ct[1] \in ConnectOutcomes(ca, ct[2])
        /\ iam_calls(ca) = << >> => ct[2] = "token_a" }

\* the same for connection(), which connects only when it has to
AcquireChoices ==
    IF needs_connect(con, live, con_age) THEN ConnectChoices(con_args)
    ELSE {<<"ok", "token_a">>}

\* what the statement does, when the connect went well
StatementChoices(c) == IF c = "ok" THEN ExecOutcomes ELSE {"ok"}

RowChoices(c, e) == IF c = "ok" /\ e = "ok" THEN RowSets ELSE {<< >>}

Next ==
    \/ \E d \in TickSteps : Tick(d)
    \/ \E f \in Fetch, found \in BOOLEAN :
          ExecBegin(IF f = "All" THEN "exec_fetch_all"
                    ELSE IF f = "One" THEN "exec_fetch_one" ELSE "exec",
                    f, found)
    \/ \E ct \in AcquireChoices, sec \in Secrets :
          \E e \in StatementChoices(ct[1]) : \E rs \in RowChoices(ct[1], e) :
             ExecAttempt(ct[1], ct[2], sec, e, rs)
    \/ Disconnect
    \/ \E ct \in AcquireChoices, sec \in Secrets :
          Connection(ct[1], ct[2], sec)
    \/ \E name \in {"exec_batch", "exec_values"} :
          \/ \E ct \in AcquireChoices, sec \in Secrets :
                \E e \in StatementChoices(ct[1]) :
                   ExecBulk(name, TRUE, ct[1], ct[2], sec, e)
          \/ \E sec \in Secrets :
                ExecBulk(name, FALSE, "ok", "token_a", sec, "ok")
    \/ \E ct \in ConnectChoices([con_args EXCEPT !.database = "postgres"]),
          sec \in Secrets :
          \E e \in StatementChoices(ct[1]) : CreateDb(ct[1], ct[2], sec, e)
    \/ \E u \in AdminUsers, pw \in AdminPasswords, sec \in Secrets :
          \E ct \in ConnectChoices([con_args EXCEPT !.user = u,
                                                    !.password = pw]) :
             \E e \in StatementChoices(ct[1]) :
                CreateIamUser(u, pw, ct[1], ct[2], sec, e)
    \/ TunnelStart
    \/ TunnelStop
    \/ \E ct \in ConnectChoices(con_args), sec \in Secrets :
          \E match \in (IF ct[1] = "ok" THEN {FALSE} ELSE BOOLEAN) :
             VerifyConnection(ct[1], ct[2], sec, match)
    \/ \E h \in 1..MaxHandles : Collect(h)

Spec == Init /\ [][Next]_vars

\* the loop of _exec goes on running: nothing suspends the thread inside it
ExecStep ==
    \E ct \in AcquireChoices, sec \in Secrets :
       \E e \in StatementChoices(ct[1]) : \E rs \in RowChoices(ct[1], e) :
          ExecAttempt(ct[1], ct[2], sec, e, rs)

FairSpec == Spec /\ WF_vars(ExecStep)

(* ---------------------------------------------------------------------- *)
(* Properties                                                              *)
(* ---------------------------------------------------------------------- *)

ExecOps == {"exec", "exec_fetch_one", "exec_fetch_all"}

BulkOps == {"exec_batch", "exec_values"}

Count(what) == Len(Select(log, what))

\* the kinds of the events of the log that are among `kinds`, in order
RECURSIVE KindsOf(_, _)
KindsOf(lg, kinds) ==
    IF lg = << >> THEN << >>
    ELSE (IF Head(lg)[1] \in kinds THEN <<Head(lg)[1]>> ELSE << >>)
            \o KindsOf(Tail(lg), kinds)

\* the first two attempts of the call failed with an OperationalError and
\* the third went through
TwoFailuresThenSuccess ==
    /\ op \in ExecOps
    /\ pc = "idle"
    /\ Nums(Select(log, "attempt")) = <<1, 2, 3>>
    /\ Nums(Select(log, "operr")) = <<1, 2>>
    /\ Count("error") = 0

\* C1: a call through _exec whose first two attempts fail with an
\* OperationalError and whose third attempt succeeds performs exactly two
\* disconnect+backoff cycles, each after the failure and before the next
\* attempt, the disconnect before the wait, with delays 1 s then 8 s, and
\* returns the result of the third attempt.
C1_RetryTwiceThenReturn ==
    TwoFailuresThenSuccess =>
        /\ KindsOf(log, {"attempt", "operr", "disconnect", "sleep"})
              = <<"attempt", "operr", "disconnect", "sleep",
                  "attempt", "operr", "disconnect", "sleep", "attempt">>
        /\ Nums(Select(log, "sleep")) = <<1, 8>>
        /\ log[Len(log)][1] = "execute"
        /\ result = Returned(fetched(fetch, rows))

C1_Witness ==
    /\ TwoFailuresThenSuccess
    /\ op = "exec_fetch_all"
    /\ result = Returned(PyList(<<8, 7>>))

\* all three attempts of the call failed with an OperationalError
ThreeFailures == op \in ExecOps /\ Nums(Select(log, "operr")) = <<1, 2, 3>>

C2_Bounded ==
    op \in ExecOps =>
        /\ Count("attempt") <= MAX_ATTEMPTS
        /\ Count("sleep") <= MAX_ATTEMPTS - 1
        /\ pc = "idle" => result.kind \in {"return", "raise"}
        /\ ThreeFailures =>
              /\ pc = "idle"
              /\ result = Raised("OperationalError")
              /\ Count("sleep") = 2
              /\ log[Len(log)] = Ev("operr", 3)

\* C2: one _exec call makes at most 3 attempts and at most 2 backoff waits
\* and always ends, by returning or by raising; when all three attempts fail
\* with an OperationalError, the third error is raised to the caller and no
\* wait follows it.
C2_BoundedAndEnds ==
    /\ []C2_Bounded
    /\ (pc = "attempt") ~> (pc = "idle")

C2_Witness ==
    /\ ThreeFailures
    /\ pc = "idle"
    /\ result = Raised("OperationalError")

\* C3: in a query call a failure that is no OperationalError (a query error
\* raised by execute, a provider failure raised during connect, a named
\* query that is not found) is raised to the caller where it occurs: it is
\* the last event of the call, no disconnect and no wait follow it, and the
\* attempts left are not decremented for it.
C3_NonTransientPropagates ==
    op \in ExecOps \cup BulkOps =>
        /\ Count("error") > 0 =>
              /\ Count("error") = 1
              /\ log[Len(log)][1] = "error"
              /\ pc = "idle"
              /\ result \in {Raised("QueryError"), Raised("ProviderError")}
              /\ Count("disconnect") = Count("operr")
              /\ Count("sleep") = Count("operr")
              /\ op \in ExecOps => attempts = MAX_ATTEMPTS - Count("operr")
        /\ result = Raised("QueryNotFound") =>
              /\ log = << >>
              /\ pc = "idle"
              /\ lastCon.driver = 0
        /\ (pc = "idle" /\ result.kind = "raise"
                /\ result.err # "OperationalError"
                /\ result.err # "QueryNotFound") => Count("error") = 1

C3_Witness ==
    /\ op \in ExecOps
    /\ result = Raised("QueryError")
    /\ Nums(Select(log, "attempt")) = <<1>>
    /\ Count("disconnect") = 0

\* a step of connection() called on an owned handle that reports open
AcquireOnOpen == op' = "connection" /\ pc = "idle" /\ con # None /\ con \in live

\* C4: with the owned handle reporting open, connection() called 59 s after
\* the last connect runs no connect and returns the same handle; called
\* 61 s after it, it runs connect once, and when the driver connects (one
\* driver connect) it returns the new handle, not the old one.
C4_Staleness ==
    [][AcquireOnOpen =>
        /\ con_age = 59 =>
              /\ Len(Select(log', "connect")) = 0
              /\ lastCon'.driver = 0
              /\ con' = con
              /\ result' = Returned(PyHandle(con))
        /\ con_age = 61 =>
              /\ Len(Select(log', "connect")) = 1
              /\ lastCon'.driver <= 1
              /\ result'.kind = "return" =>
                    /\ lastCon'.driver = 1
                    /\ con' # con
                    /\ con' \notin live
                    /\ con' \in live'
                    /\ result' = Returned(PyHandle(con'))
              /\ result'.kind = "raise" => con' = con]_vars

C4_Witness ==
    /\ op = "connection"
    /\ log = <<Ev("stale", 1), Ev("connect", 2)>>
    /\ result = Returned(PyHandle(2))
    /\ con_age = 0

\* C5: at most one handle opened by the manager is live.
C5_AtMostOneLive == Cardinality(live) <= 1

\* C6: whenever connection() returns, the handle it returns reports open.
C6_ReturnsOpenHandle ==
    (op = "connection" /\ result.kind = "return") =>
        /\ result.val.tag = "handle"
        /\ result.val.n # None
        /\ result.val.n \in live
        /\ result.val.n = con

C6_Witness ==
    /\ op = "connection"
    /\ result.kind = "return"
    /\ log[1][1] = "closed"

C7_State ==
    LET d1 == disconnect(Fields)
        d2 == disconnect(d1)
    IN  /\ d1.con = None
        /\ d1.con_args = orig_con_args
        /\ d1.live = live \ {con}
        /\ Nums(close_calls(Fields)) = (IF con \in live THEN <<con>> ELSE << >>)
        /\ close_calls(d1) = << >>
        /\ d2 = d1
        /\ op = "disconnect" =>
              /\ result = Returned(PyNone)
              /\ con = None
              /\ con_args = orig_con_args

\* C7: from every reachable state disconnect() raises nothing, calls close()
\* on the handle only when it is open, clears the handle reference and
\* leaves the connection parameters equal to the original ones; a second
\* call right after the first changes none of the manager's fields.
C7_DisconnectIdempotent ==
    /\ []C7_State
    /\ [][(op = "disconnect" /\ op' = "disconnect") =>
            /\ result' = Returned(PyNone)
            /\ Select(log', "close") = << >>
            /\ UNCHANGED <<con, live, con_args, orig_con_args, tunnel,
                           con_age, nextId>>]_vars

C7_Witness ==
    /\ op = "disconnect"
    /\ log = <<Ev("disconnect", None)>>
    /\ nextId > 1
    /\ live = {}

\* C8: create_db connects to the database "postgres" and, on every outcome,
\* has closed the connection it opened when it ends.
C8_CreateDbCloses ==
    (op = "create_db" /\ lastCon.driver = 1) =>
        /\ lastCon.args.database = "postgres"
        /\ \A i \in 1..Len(log) :
              (log[i][1] = "connect" /\ log[i][2] # None) => log[i][2] \notin live

\* C9: in every query operation, exec_batch and exec_values included, an
\* OperationalError reaches the caller only from the last of MAX_ATTEMPTS
\* attempts, each earlier one being followed by disconnect, a wait and a
\* new attempt.
C9_BulkRetries ==
    (op \in ExecOps \cup BulkOps /\ pc = "idle"
        /\ result = Raised("OperationalError")) =>
        /\ Count("attempt") = MAX_ATTEMPTS
        /\ Count("disconnect") = MAX_ATTEMPTS - 1
        /\ Count("sleep") = MAX_ATTEMPTS - 1

\* C10: a connect run on parameters whose password is "IAM" calls the IAM
\* provider once, with the real host, port and user, calls no other
\* provider, and hands the driver the user unchanged and the token as
\* password; a password that is no sentinel reaches the driver unchanged
\* with no provider call.
C10_IamResolvedOnce ==
    lastCon.driver = 1 =>
        /\ lastCon.given.password = "IAM" =>
              /\ lastCon.calls = <<IamCall(RealTarget.host, RealTarget.port,
                                           lastCon.given.user)>>
              /\ lastCon.args.user = lastCon.given.user
              /\ lastCon.args.password = lastCon.token
        /\ lastCon.given.password \notin {"IAM", "SEM"} =>
              /\ lastCon.calls = << >>
              /\ lastCon.args.password = lastCon.given.password
              /\ lastCon.args.user = lastCon.given.user

\* C11: when a public query call has ended, whichever way (a result, an
\* OperationalError on the last attempt or from a failed reconnect, an error
\* that is not transient), self.con is None or refers to an open handle,
\* never to a closed one.
C11_HandleAbsentOrOpen ==
    (op \in ExecOps \cup BulkOps /\ pc = "idle") =>
        (con = None \/ con \in live)

\* C12: every driver connect made while a tunnel is set targets the
\* tunnel's local host and port, not the configured ones; every driver
\* connect made with no tunnel targets the configured host and port.
C12_ConnectTarget ==
    lastCon.driver = 1 =>
        /\ lastCon.tunnel = tunnel
        /\ lastCon.given.host = RealTarget.host
        /\ lastCon.given.port = RealTarget.port
        /\ tunnel =>
              /\ lastCon.args.host = TunnelEndpoint.host
              /\ lastCon.args.port = TunnelEndpoint.port
              /\ lastCon.args.host # lastCon.given.host
              /\ lastCon.args.port # lastCon.given.port
        /\ ~tunnel =>
              /\ lastCon.args.host = RealTarget.host
              /\ lastCon.args.port = RealTarget.port

C12_Witness ==
    /\ tunnel
    /\ op \in ExecOps
    /\ lastCon.driver = 1
    /\ result.kind = "return"
    /\ lastCon.args.host = TunnelEndpoint.host

\* tunnel_stop has run on a manager that had a tunnel
TunnelStopped == op = "tunnel_stop" /\ result = Returned(PyNone)

C13_State ==
    /\ op = "tunnel_stop" =>
          /\ con = None
          /\ ~tunnel
          /\ log[1][1] = "disconnect"
    /\ TunnelStopped =>
          /\ Count("tunnel_stop") = 1
          /\ log[Len(log)] = Ev("tunnel_stop", 0)
          /\ \A i \in 1..Len(log) :
                log[i][1] = "close" => log[i][2] \notin live
    /\ op = "disconnect" => Count("tunnel_stop") = 0

\* C13: tunnel_stop closes and clears the owned handle first, stops the
\* tunnel after that and clears the tunnel reference last; disconnect,
\* called by the user or by the retry loop, leaves the tunnel as it is.
C13_TunnelStopOrder ==
    /\ []C13_State
    /\ [][/\ (op' = "tunnel_stop" /\ tunnel /\ con # None /\ con \in live) =>
                /\ log' = <<Ev("disconnect", con), Ev("close", con),
                            Ev("tunnel_stop", 0)>>
                /\ con \notin live'
                /\ con' = None
                /\ ~tunnel'
          /\ op' \in {"disconnect"} \cup ExecOps => tunnel' = tunnel]_vars

C13_Witness ==
    /\ TunnelStopped
    /\ log = <<Ev("disconnect", 1), Ev("close", 1), Ev("tunnel_stop", 0)>>
    /\ live = {}

\* C14: verify_connection runs connect once, with no retry, disconnect or
\* wait; it returns True when the connect succeeds, False when the connect
\* raises an error whose text contains msg, and raises the connect's own
\* error in every other case.
C14_VerifyClassifies ==
    op = "verify_connection" =>
        /\ Count("connect") = 1
        /\ lastCon.driver <= 1
        /\ Count("attempt") = 0
        /\ Count("disconnect") = 0
        /\ Count("sleep") = 0
        /\ log[1][2] # None =>
              /\ log = <<Ev("connect", log[1][2])>>
              /\ lastCon.driver = 1
              /\ result = Returned(PyBool(TRUE))
        /\ log[1][2] = None =>
              /\ Len(log) = 2
              /\ log[2] = Ev("match", 1) => result = Returned(PyBool(FALSE))
              /\ log[2] = Ev("match", 0) =>
                    result = Raised(IF lastCon.driver = 1
                                    THEN "OperationalError" ELSE "ProviderError")

C14_Witness ==
    /\ op = "verify_connection"
    /\ log = <<Ev("connect", None), Ev("match", 0)>>
    /\ result = Raised("OperationalError")

\* a query call through _exec has returned, the statement having produced
\* the rows `rows`
ExecReturned == op \in ExecOps /\ pc = "idle" /\ result.kind = "return"

\* C15: a successful exec returns None whatever rows the statement
\* produced; exec_fetch_one returns the first row, and None, not an error,
\* when there is no row; exec_fetch_all returns all the rows in order, and
\* the empty list, not None, when there is no row.
C15_FetchResult ==
    ExecReturned =>
        /\ op = "exec" => fetch = "Zro" /\ result.val = PyNone
        /\ op = "exec_fetch_one" =>
              /\ fetch = "One"
              /\ rows = << >> => result.val = PyNone
              /\ rows # << >> =>
                    /\ result.val.tag = "row"
                    /\ result.val.rows = <<rows[1]>>
        /\ op = "exec_fetch_all" =>
              /\ fetch = "All"
              /\ result.val.tag = "list"
              /\ result.val # PyNone
              /\ result.val.rows = rows

C15_Witness ==
    /\ ExecReturned
    /\ op = "exec_fetch_all"
    /\ rows = << >>
    /\ result.val = PyList(<< >>)

AdminOps == {"create_db", "create_iam_user"}

\* C16: create_db and create_iam_user run connect once (one driver connect,
\* none when a credential provider raises first), with no retry, disconnect
\* or wait, on a handle of their own that is not the one the manager owns;
\* however they end, self.con, the age of self.con_last and self.con_args
\* are what they were before the call.
C16_AdminFrame ==
    [][op' \in AdminOps =>
        /\ Len(Select(log', "connect")) = 1
        /\ lastCon'.driver <= 1
        /\ result'.err # "ProviderError" => lastCon'.driver = 1
        /\ Len(Select(log', "attempt")) = 0
        /\ Len(Select(log', "disconnect")) = 0
        /\ Len(Select(log', "sleep")) = 0
        /\ log'[1][2] # None =>
              /\ log'[1][2] # con
              /\ log'[1][2] \notin live
        /\ con' = con
        /\ con_age' = con_age
        /\ con_args' = con_args
        /\ orig_con_args' = orig_con_args
        /\ con \in live => con \in live']_vars

C16_Witness ==
    /\ op = "create_iam_user"
    /\ result = Returned(PyNone)
    /\ log = <<Ev("connect", 2), Ev("execute", 2), Ev("close", 2)>>
    /\ con = 1
    /\ live = {1}
    /\ con_age = 59

\* the operations that connect from the stored parameters
StoredOps == ExecOps \cup BulkOps \cup {"connection", "verify_connection"}

\* C17: self.con_args always equals the original parameters, password still
\* the sentinel and host and port the real target, resolution and tunnel
\* override having gone to the copy of one connect; so each driver connect
\* made from sentinel parameters, whether the first, a refresh of a stale
\* handle or a reconnect after a failure, has made its own provider call and
\* hands the driver what that call answered.
C17_NeverCached ==
    /\ con_args = orig_con_args
    /\ \E pw \in Passwords : con_args = ConArgs(pw)
    /\ lastCon.driver = 1 =>
          /\ op \in StoredOps => lastCon.given = con_args
          /\ lastCon.given.password = "IAM" =>
                /\ Len(lastCon.calls) >= 1
                /\ lastCon.calls[1].prov = "IAM"
                /\ lastCon.token \in Tokens
                /\ \/ lastCon.args.password = lastCon.token
                   \/ /\ lastCon.token = "SEM"
                      /\ Len(lastCon.calls) = 2
                      /\ \E sec \in Secrets :
                            lastCon.args.password = sec.password
          /\ lastCon.given.password = "SEM" =>
                /\ lastCon.calls = <<SemCall(lastCon.given.user)>>
                /\ \E sec \in Secrets :
                      /\ lastCon.args.password = sec.password
                      /\ lastCon.args.user = sec.username

\* the third attempt of a call connects from the sentinel after a failed
\* connect and a connect whose statement failed
C17_Witness ==
    /\ op \in ExecOps
    /\ Nums(Select(log, "connect")) = <<None, 1, 2>>
    /\ Nums(Select(log, "operr")) = <<1, 2>>
    /\ result.kind = "return"
    /\ con_args.password = "IAM"
    /\ tunnel
    /\ lastCon.driver = 1
    /\ lastCon.calls # << >>

\* C18: when connection() finds the owned handle open but stale and the
\* driver connects, the old handle has been closed by the time the new one
\* replaces it: the replaced handle is not left open.
C18_RefreshClosesOld ==
    \A i \in 1..(Len(log) - 1) :
        (log[i][1] = "stale" /\ log[i + 1][1] = "connect"
            /\ log[i + 1][2] # None) => log[i][2] \notin live

\* attempt number k of the running or last _exec call starts at position i
\* of the log, after an earlier attempt failed
RetryAt(i) == log[i][1] = "attempt" /\ log[i][2] > 1

C19_Log ==
    \A i \in 1..Len(log) : RetryAt(i) =>
        /\ log[i - 1][1] = "sleep"
        /\ log[i - 2][1] \in {"disconnect", "close"}
        /\ Len(log) >= i + 2
        /\ log[i + 1] = Ev("absent", None)
        /\ log[i + 2][1] = "connect"
        /\ \A j \in (i + 1)..Len(log) : log[j][1] = "execute" =>
              /\ \E m \in (i + 1)..(j - 1) : log[m] = Ev("connect", log[j][2])
              /\ \A m \in 1..(i - 1) :
                    log[m][1] \in {"connect", "execute", "reuse", "stale",
                                   "closed"} => log[m][2] # log[j][2]

\* C19: in a call through _exec, an attempt that follows a failed one never
\* runs on the failed attempt's handle: the disconnect after the failure has
\* cleared self.con, so the attempt finds no handle and runs connect() anew,
\* from the original parameters, with the provider called again and the
\* tunnel override applied again, and executes only on the handle that
\* connect has just opened.
C19_RetryReconnects ==
    op \in ExecOps =>
        /\ C19_Log
        /\ (pc = "attempt" /\ attempts < MAX_ATTEMPTS) =>
              /\ con = None
              /\ con_args = orig_con_args
        /\ Count("attempt") > 1 =>
              /\ lastCon.given = orig_con_args
              /\ lastCon.tunnel = tunnel
              /\ lastCon.given.password = "IAM" => lastCon.calls # << >>
              /\ (lastCon.given.password = "SEM" /\ lastCon.driver = 1) =>
                    lastCon.calls = <<SemCall(lastCon.given.user)>>
              /\ (lastCon.driver = 1 /\ tunnel) =>
                    lastCon.args.host = TunnelEndpoint.host

C19_Witness ==
    /\ op \in ExecOps
    /\ result.kind = "return"
    /\ tunnel
    /\ con_args.password = "SEM"
    /\ log = <<Ev("attempt", 1), Ev("absent", None), Ev("connect", 1),
               Ev("execute", 1), Ev("operr", 1), Ev("disconnect", 1),
               Ev("close", 1), Ev("sleep", 1),
               Ev("attempt", 2), Ev("absent", None), Ev("connect", 2),
               Ev("execute", 2)>>

\* the events the step adds to the log: an attempt of _exec extends the
\* log of its call, every other step starts a new one
NewEvents ==
    IF pc = "attempt" THEN SubSeq(log', Len(log) + 1, Len(log')) ELSE log'

\* the step has an event of kind `what`
Did(what) == \E i \in 1..Len(NewEvents) : NewEvents[i][1] = what

\* the step runs connection() and its driver connect succeeds
Reconnected ==
    /\ op' \in ExecOps \cup BulkOps \cup {"connection"}
    /\ \E i \in 1..Len(NewEvents) :
          NewEvents[i][1] = "connect" /\ NewEvents[i][2] # None

\* C20: self.con_last is set at construction and afterwards only by a
\* connection() whose driver connect succeeds.  Read through the age
\* (now - con_last): the age starts at 0, grows only as time passes and
\* returns to 0 exactly in such a step; a statement run on a reused handle,
\* whether it succeeds or fails, a failed connect, disconnect, tunnel_start,
\* tunnel_stop, create_db, create_iam_user and verify_connection leave it as
\* it is, and a handle is reused only while it is at most 60 s old.
C20_TimestampFrame ==
    /\ (op = "init" => con_age = 0)
    /\ [][/\ Reconnected => con_age' = 0
          /\ con_age' # con_age =>
                \/ op' = "tick" /\ con_age' > con_age
                \/ Reconnected
          /\ op' = "tick" <=> con_age' > con_age
          /\ Did("reuse") =>
                /\ con_age' = con_age
                /\ con_age <= StaleAfter
          /\ (Did("connect") /\ ~Reconnected /\ op' \notin AdminOps
                /\ op' # "verify_connection") => con_age' = con_age
          /\ op' \in {"disconnect", "tunnel_start", "tunnel_stop",
                      "verify_connection", "collect"} \cup AdminOps =>
                con_age' = con_age]_vars

\* a handle used at 59 s is used again at 61 s and refreshed
C20_Witness ==
    /\ op \in ExecOps
    /\ result.kind = "return"
    /\ log = <<Ev("attempt", 1), Ev("stale", 1), Ev("connect", 2),
               Ev("execute", 2)>>
    /\ con_age = 0
====
